---- MODULE Spec2Model ----
(***************************************************************************)
(* Process supervisor of the Voice Shell desktop application:              *)
(*   src-tauri/src/server.rs   (start_server, stop_server,                 *)
(*                              is_server_running, accessors)              *)
(*   src-tauri/src/commands.rs (get_server_status, restart_server, ...)    *)
(* Every caller is a thread that walks through the statements of the       *)
(* function it called.  The three lazy_static mutexes are the shared       *)
(* state.  A child process is an entry of `children`; it exits whenever    *)
(* it likes (ChildExit).                                                   *)
(***************************************************************************)
EXTENDS Integers, Naturals, Sequences, FiniteSets, TLC

\* ------------------------------------------------------------ bounds
\* Children that can be spawned in one behaviour (spawn fails after that).
MaxSpawns == 2
\* Calls caller 1 makes in one behaviour.
MaxCalls == 3
\* Calls the second, concurrent caller makes in one behaviour.
MaxOtherCalls == 1

\* ------------------------------------------------------------ constants
max_attempts == 30
DefaultPort == 8765
None == 0
U16 == 2^16

Callers == {1, 2}
DefaultLanguage == "en"
\* The (port, language) pairs callers pass: the defaults, and the largest
\* u16 port with another language.
Configs == {<<DefaultPort, DefaultLanguage>>, <<U16 - 1, "fr">>}

\* find_python's candidate list, in probing order.
candidates == <<"python3", "python", "/usr/bin/python3", "/usr/local/bin/python3">>
venv_python == "$VIRTUAL_ENV/bin/python"
NoPython == "None"

VARIABLES
    SERVER_PROCESS,    \* Mutex<Option<Child>>: None or the index of a child
    slot_lock,         \* thread holding the SERVER_PROCESS mutex, 0 = free
    SERVER_PORT,       \* Mutex<u16>
    port_lock,         \* thread holding the SERVER_PORT mutex, 0 = free
    SERVER_LANGUAGE,   \* Mutex<String>
    language_lock,     \* thread holding the SERVER_LANGUAGE mutex, 0 = free
    children,          \* every child spawned so far
    pc,                \* per caller: statement it is at
    op,                \* per caller: the function it called
    port,              \* per caller: argument `port`
    language,          \* per caller: argument `language`
    python,            \* per caller: start_server's local `python`
    start_child,       \* per caller: start_server's local `child`
    stop_child,        \* per caller: stop_server's local `child`
    http_port,         \* per caller: start_server's local `http_port`
    attempt,           \* per caller: start_server's loop variable
    connected,         \* per caller: what the last check_server_ready returned
    is_running,        \* per caller: boolean got from is_server_running
    ret_port,          \* per caller: u16 got from get_server_port
    result,            \* per caller: the string / Result the call returned
    prev_set,          \* per caller: language of the set_language call that
                       \*   the caller completed just before the current call
    calls              \* per caller: calls made so far

shared == <<SERVER_PROCESS, slot_lock, SERVER_PORT, port_lock,
            SERVER_LANGUAGE, language_lock, children>>
locals == <<pc, op, port, language, python, start_child, stop_child, http_port,
            attempt, connected, is_running, ret_port, result, prev_set>>
vars == <<shared, locals, calls>>

\* ------------------------------------------------------------ pure helpers

\* `a + 1` on u16: wraps in a build without overflow checks.
wrapping_succ(a) == (a + 1) % U16

\* `port + 1` overflows u16.
succ_overflows(a) == a + 1 >= U16

\* What `a + 1` on u16 can do: "value" it yields a number (wrapped when the
\* sum overflows in a build without overflow checks), "panic" it aborts the
\* caller (overflow in a build with overflow checks, the debug profile).
succ_outcomes(a) == IF succ_overflows(a) THEN {"value", "panic"} ELSE {"value"}

\* format!("http://127.0.0.1:{}", n)
format_url(n) == "http://127.0.0.1:" \o ToString(n)

\* format!("Failed to restart server: {}", e)
format_restart_err(e) == "Failed to restart server: " \o e

RECURSIVE first_usable(_, _)
first_usable(i, usable) ==
    IF i > Len(candidates) THEN NoPython
    ELSE IF candidates[i] \in usable THEN candidates[i]
    ELSE first_usable(i + 1, usable)

\* find_python: the first candidate whose `--version` runs, else the
\* virtual environment's interpreter if VIRTUAL_ENV is set and the file exists.
find_python(usable, venv_set, venv_exists) ==
    LET c == first_usable(1, usable) IN
    IF c # NoPython THEN c
    ELSE IF venv_set /\ venv_exists THEN venv_python
    ELSE NoPython

\* child.try_wait() of the handle in the slot says "still running".
try_wait_running(c) == children[c].state = "running"

\* Value is_server_running() computes once it holds the slot lock.
is_server_running ==
    IF SERVER_PROCESS # None THEN try_wait_running(SERVER_PROCESS) ELSE FALSE

\* A spawned child: Command::new(python).args([.., "--port", p, "--lang", l])
\* with both streams piped.  The *_readers fields count the relay threads
\* reading each stream, term_requests the termination requests addressed to
\* the process, late_requests those of them issued after it had exited.
new_child(p, l) ==
    [port |-> p, lang |-> l, state |-> "running",
     stdout |-> "piped", stderr |-> "piped",
     out_readers |-> 0, err_readers |-> 0,
     term_requests |-> 0, late_requests |-> 0]

\* ------------------------------------------------------------ initial state

Init ==
    /\ SERVER_PROCESS = None
    /\ slot_lock = 0
    /\ SERVER_PORT = DefaultPort
    /\ port_lock = 0
    /\ SERVER_LANGUAGE = DefaultLanguage
    /\ language_lock = 0
    /\ children = <<>>
    /\ pc = [t \in Callers |-> "idle"]
    /\ op = [t \in Callers |-> "none"]
    /\ port = [t \in Callers |-> 0]
    /\ language = [t \in Callers |-> ""]
    /\ python = [t \in Callers |-> NoPython]
    /\ start_child = [t \in Callers |-> None]
    /\ stop_child = [t \in Callers |-> None]
    /\ http_port = [t \in Callers |-> 0]
    /\ attempt = [t \in Callers |-> 0]
    /\ connected = [t \in Callers |-> FALSE]
    /\ is_running = [t \in Callers |-> FALSE]
    /\ ret_port = [t \in Callers |-> 0]
    /\ result = [t \in Callers |-> ""]
    /\ prev_set = [t \in Callers |-> ""]
    /\ calls = [t \in Callers |-> 0]

\* ------------------------------------------------------------ callers

Idle(t) == pc[t] = "idle"

\* The (port, language) pairs a caller passes.
ArgsOf(t) == IF t = 1 THEN Configs ELSE {<<U16 - 1, "fr">>}

CallBudget(t) == IF t = 1 THEN MaxCalls ELSE MaxOtherCalls

\* A caller enters one of the public functions / commands.
Call(t, f, p, l, entry) ==
    /\ Idle(t)
    /\ calls[t] < CallBudget(t)
    /\ calls' = [calls EXCEPT ![t] = @ + 1]
    /\ pc' = [pc EXCEPT ![t] = entry]
    /\ op' = [op EXCEPT ![t] = f]
    /\ port' = [port EXCEPT ![t] = p]
    /\ language' = [language EXCEPT ![t] = l]
    /\ UNCHANGED <<shared, python, start_child, stop_child,
                   http_port, attempt, connected, is_running, ret_port, result,
                   prev_set>>

Call_start_server(t) ==
    \E a \in ArgsOf(t) : Call(t, "start_server", a[1], a[2], "start_check")

Call_stop_server(t) == Call(t, "stop_server", 0, "", "stop_take")

Call_restart_server(t) ==
    \E a \in ArgsOf(t) : Call(t, "restart_server", a[1], a[2], "stop_take")

Call_is_server_running(t) == Call(t, "is_server_running", 0, "", "is_running")

Call_get_server_status(t) == Call(t, "get_server_status", 0, "", "status_running")

Call_get_server_port(t) == Call(t, "get_server_port", 0, "", "get_port")

Call_get_language(t) == Call(t, "get_language", 0, "", "get_language")

Call_set_language(t) ==
    \E a \in ArgsOf(t) : Call(t, "set_language", 0, a[2], "set_language")

\* The call has returned: the caller is free again and its locals are
\* gone.  (A caller whose call panicked gets no answer and stays where it is.)
Return(t) ==
    /\ pc[t] = "done"
    /\ pc' = [pc EXCEPT ![t] = "idle"]
    /\ prev_set' = [prev_set EXCEPT ![t] =
                       IF op[t] = "set_language" THEN language[t] ELSE ""]
    /\ op' = [op EXCEPT ![t] = "none"]
    /\ port' = [port EXCEPT ![t] = 0]
    /\ language' = [language EXCEPT ![t] = ""]
    /\ python' = [python EXCEPT ![t] = NoPython]
    /\ start_child' = [start_child EXCEPT ![t] = None]
    /\ stop_child' = [stop_child EXCEPT ![t] = None]
    /\ http_port' = [http_port EXCEPT ![t] = 0]
    /\ attempt' = [attempt EXCEPT ![t] = 0]
    /\ connected' = [connected EXCEPT ![t] = FALSE]
    /\ is_running' = [is_running EXCEPT ![t] = FALSE]
    /\ ret_port' = [ret_port EXCEPT ![t] = 0]
    /\ result' = [result EXCEPT ![t] = ""]
    /\ UNCHANGED <<calls, shared>>

\* ------------------------------------------------------------ start_server

\* Faulty variant: restart_server reports a failure without start's error.
start_result_drops_error(t, r) ==
    IF op[t] = "restart_server"
    THEN IF r = "Ok" THEN "Server restarted successfully"
         ELSE "Failed to restart server"
    ELSE r

\* What the enclosing command hands back for start_server's Result.
start_result(t, r) ==
    IF op[t] = "restart_server"
    THEN IF r = "Ok" THEN "Server restarted successfully"
         ELSE format_restart_err(r)
    ELSE r

\* start_server returns r.
start_return(t, r) ==
    /\ pc' = [pc EXCEPT ![t] = "done"]
    /\ result' = [result EXCEPT ![t] = start_result(t, r)]

\* Faulty variant: the configuration is stored before the liveness check.
start_check_stores_first(t) ==
    /\ pc[t] = "start_check"
    /\ slot_lock = 0
    /\ SERVER_PORT' = port[t]
    /\ SERVER_LANGUAGE' = language[t]
    /\ IF is_server_running
       THEN start_return(t, "Server is already running")
       ELSE /\ pc' = [pc EXCEPT ![t] = "start_store_port"]
            /\ UNCHANGED result
    /\ UNCHANGED <<calls, port_lock, language_lock,
                   SERVER_PROCESS, slot_lock, children, op, port,
                   language, python, start_child, stop_child, http_port,
                   attempt, connected, is_running, ret_port, prev_set>>

\* Faulty variant: any handle in the slot, stale or not, rejects the start.
start_check_rejects_occupied(t) ==
    /\ pc[t] = "start_check"
    /\ slot_lock = 0
    /\ IF SERVER_PROCESS # None
       THEN start_return(t, "Server is already running")
       ELSE /\ pc' = [pc EXCEPT ![t] = "start_store_port"]
            /\ UNCHANGED result
    /\ UNCHANGED <<calls, shared, op, port, language, python,
                   start_child, stop_child, http_port, attempt, connected,
                   is_running, ret_port, prev_set>>

\* server.rs:18-20  if is_server_running() { return Err(..) }
start_check(t) ==
    /\ pc[t] = "start_check"
    /\ slot_lock = 0
    /\ IF is_server_running
       THEN start_return(t, "Server is already running")
       ELSE /\ pc' = [pc EXCEPT ![t] = "start_store_port"]
            /\ UNCHANGED result
    /\ UNCHANGED <<calls, shared, op, port, language, python,
                   start_child, stop_child, http_port, attempt, connected,
                   is_running, ret_port, prev_set>>

\* server.rs:23  *SERVER_PORT.lock().unwrap() = port;
start_store_port(t) ==
    /\ pc[t] = "start_store_port"
    /\ port_lock = 0
    /\ SERVER_PORT' = port[t]
    /\ pc' = [pc EXCEPT ![t] = "start_store_language"]
    /\ UNCHANGED <<calls, port_lock, language_lock,
                   SERVER_PROCESS, slot_lock, SERVER_LANGUAGE,
                   children, op, port, language, python, start_child,
                   stop_child, http_port, attempt, connected, is_running,
                   ret_port, result, prev_set>>

\* server.rs:24  *SERVER_LANGUAGE.lock().unwrap() = language.to_string();
start_store_language(t) ==
    /\ pc[t] = "start_store_language"
    /\ language_lock = 0
    /\ SERVER_LANGUAGE' = language[t]
    /\ pc' = [pc EXCEPT ![t] = "start_find_python"]
    /\ UNCHANGED <<calls, port_lock, language_lock,
                   SERVER_PROCESS, slot_lock, SERVER_PORT,
                   children, op, port, language, python, start_child,
                   stop_child, http_port, attempt, connected, is_running,
                   ret_port, result, prev_set>>

\* Faulty variant: a failed interpreter lookup also clears the slot.
start_find_python_clears_slot(t) ==
    /\ pc[t] = "start_find_python"
    /\ \E usable \in SUBSET {candidates[i] : i \in 1..Len(candidates)},
          venv_set \in BOOLEAN, venv_exists \in BOOLEAN :
          LET found == find_python(usable, venv_set, venv_exists) IN
          /\ python' = [python EXCEPT ![t] = found]
          /\ IF found = NoPython
             THEN start_return(t, "Python not found") /\ SERVER_PROCESS' = None
             ELSE /\ pc' = [pc EXCEPT ![t] = "start_spawn"]
                  /\ UNCHANGED <<result, SERVER_PROCESS>>
    /\ UNCHANGED <<calls, port_lock, language_lock,
                   slot_lock, SERVER_PORT, SERVER_LANGUAGE, children,
                   op, port, language, start_child, stop_child, http_port,
                   attempt, connected, is_running, ret_port, prev_set>>

\* server.rs:27  let python = find_python().ok_or("Python not found")?;
start_find_python(t) ==
    /\ pc[t] = "start_find_python"
    /\ \E usable \in SUBSET {candidates[i] : i \in 1..Len(candidates)},
          venv_set \in BOOLEAN, venv_exists \in BOOLEAN :
          LET found == find_python(usable, venv_set, venv_exists) IN
          /\ python' = [python EXCEPT ![t] = found]
          /\ IF found = NoPython
             THEN start_return(t, "Python not found")
             ELSE /\ pc' = [pc EXCEPT ![t] = "start_spawn"]
                  /\ UNCHANGED result
    /\ UNCHANGED <<calls, shared, op, port, language, start_child,
                   stop_child, http_port, attempt, connected, is_running,
                   ret_port, prev_set>>

\* Faulty variant: a failed spawn puts the default configuration back.
start_spawn_rolls_back(t) ==
    /\ pc[t] = "start_spawn"
    /\ \/ /\ Len(children) < MaxSpawns
          /\ children' = Append(children, new_child(port[t], language[t]))
          /\ start_child' = [start_child EXCEPT ![t] = Len(children) + 1]
          /\ pc' = [pc EXCEPT ![t] = "start_store_handle"]
          /\ UNCHANGED <<result, SERVER_PORT, SERVER_LANGUAGE>>
       \/ /\ start_return(t, "Failed to spawn Python process: os error")
          /\ SERVER_PORT' = DefaultPort
          /\ SERVER_LANGUAGE' = DefaultLanguage
          /\ UNCHANGED <<children, start_child>>
    /\ python' = [python EXCEPT ![t] = NoPython]
    /\ UNCHANGED <<calls, port_lock, language_lock,
                   SERVER_PROCESS, slot_lock, op, port, language,
                   stop_child, http_port, attempt, connected, is_running,
                   ret_port, prev_set>>

\* Faulty variant: the child's arguments are read from the stored
\* configuration at the moment of the spawn.
start_spawn_reads_configuration(t) ==
    /\ pc[t] = "start_spawn"
    /\ \/ /\ Len(children) < MaxSpawns
          /\ children' = Append(children, new_child(SERVER_PORT, SERVER_LANGUAGE))
          /\ start_child' = [start_child EXCEPT ![t] = Len(children) + 1]
          /\ pc' = [pc EXCEPT ![t] = "start_store_handle"]
          /\ UNCHANGED result
       \/ /\ start_return(t, "Failed to spawn Python process: os error")
          /\ UNCHANGED <<children, start_child>>
    /\ python' = [python EXCEPT ![t] = NoPython]
    /\ UNCHANGED <<calls, port_lock, language_lock,
                   SERVER_PROCESS, slot_lock, SERVER_PORT,
                   SERVER_LANGUAGE, op, port, language, stop_child,
                   http_port, attempt, connected, is_running, ret_port,
                   prev_set>>

\* server.rs:32-44  Command::new(&python).args([...]).spawn().map_err(..)?
\* (`python` is not used after this statement.)
start_spawn(t) ==
    /\ pc[t] = "start_spawn"
    /\ \/ /\ Len(children) < MaxSpawns
          /\ children' = Append(children, new_child(port[t], language[t]))
          /\ start_child' = [start_child EXCEPT ![t] = Len(children) + 1]
          /\ pc' = [pc EXCEPT ![t] = "start_store_handle"]
          /\ UNCHANGED result
       \/ /\ start_return(t, "Failed to spawn Python process: os error")
          /\ UNCHANGED <<children, start_child>>
    /\ python' = [python EXCEPT ![t] = NoPython]
    /\ UNCHANGED <<calls, port_lock, language_lock,
                   SERVER_PROCESS, slot_lock, SERVER_PORT,
                   SERVER_LANGUAGE, op, port, language, stop_child,
                   http_port, attempt, connected, is_running, ret_port,
                   prev_set>>

\* Dropping a Child handle closes the stream ends it still owns; the
\* process itself is neither killed nor waited for.
drop_handle(ch, c) ==
    IF c = None THEN ch
    ELSE [ch EXCEPT ![c].stdout = IF @ = "piped" THEN "closed" ELSE @,
                    ![c].stderr = IF @ = "piped" THEN "closed" ELSE @]

\* server.rs:47  *SERVER_PROCESS.lock().unwrap() = Some(child);
start_store_handle(t) ==
    /\ pc[t] = "start_store_handle"
    /\ slot_lock = 0
    /\ SERVER_PROCESS' = start_child[t]
    /\ children' = drop_handle(children, SERVER_PROCESS)
    /\ pc' = [pc EXCEPT ![t] = "start_forward"]
    /\ UNCHANGED <<calls, port_lock, language_lock,
                   slot_lock, SERVER_PORT, SERVER_LANGUAGE,
                   op, port, language, python, start_child, stop_child,
                   http_port, attempt, connected, is_running, ret_port,
                   result, prev_set>>

\* server.rs:167-189  start_log_forwarder: take whatever stream ends the
\* handle in the slot still owns and give each to a new reader thread.
start_log_forwarder(ch, c) ==
    IF c = None THEN ch
    ELSE [ch EXCEPT
            ![c].stdout = IF @ = "piped" THEN "taken" ELSE @,
            ![c].out_readers = IF ch[c].stdout = "piped" THEN @ + 1 ELSE @,
            ![c].stderr = IF @ = "piped" THEN "taken" ELSE @,
            ![c].err_readers = IF ch[c].stderr = "piped" THEN @ + 1 ELSE @]

\* server.rs:50-54  start_log_forwarder(); let http_port = port + 1;
start_forward(t) ==
    /\ pc[t] = "start_forward"
    /\ slot_lock = 0
    /\ children' = start_log_forwarder(children, SERVER_PROCESS)
    /\ \E o \in succ_outcomes(port[t]) :
          IF o = "panic"
          THEN /\ pc' = [pc EXCEPT ![t] = "panicked"]
               /\ UNCHANGED <<http_port, attempt>>
          ELSE /\ http_port' = [http_port EXCEPT ![t] = wrapping_succ(port[t])]
               /\ attempt' = [attempt EXCEPT ![t] = 1]
               /\ pc' = [pc EXCEPT ![t] = "start_poll"]
    /\ UNCHANGED <<calls, port_lock, language_lock,
                   SERVER_PROCESS, slot_lock, SERVER_PORT,
                   SERVER_LANGUAGE, op, port, language, python, start_child,
                   stop_child, connected, is_running, ret_port, result,
                   prev_set>>

\* server.rs:69-78  check_server_ready: whether a TCP connect to
\* 127.0.0.1:p succeeds within 500ms.  Anything may be listening there,
\* except on port 0, to which no connection can be made.
check_server_ready(p) == IF p = 0 THEN {FALSE} ELSE BOOLEAN

\* server.rs:55-65  one turn of the readiness loop, and the fall-through
start_poll(t) ==
    /\ pc[t] = "start_poll"
    /\ \E ready \in check_server_ready(http_port[t]) :
          /\ connected' = [connected EXCEPT ![t] = ready]
          /\ IF ready \/ attempt[t] = max_attempts
             THEN start_return(t, "Ok") /\ UNCHANGED attempt
             ELSE /\ attempt' = [attempt EXCEPT ![t] = @ + 1]
                  /\ UNCHANGED <<pc, result>>
    /\ UNCHANGED <<calls, shared, op, port, language, python,
                   start_child, stop_child, http_port, is_running, ret_port,
                   prev_set>>

\* ------------------------------------------------------------ stop_server

\* Where control goes when stop_server returns: to restart_server's sleep
\* when called from there, to the caller otherwise.
after_stop(t) == IF op[t] = "restart_server" THEN "restart_sleep" ELSE "done"

\* libc::kill(child.id(), SIGTERM) / child.kill(): one more termination
\* request addressed to child c.
request_termination(ch, c) ==
    [ch EXCEPT ![c].term_requests = @ + 1,
               ![c].late_requests = IF ch[c].state = "exited" THEN @ + 1 ELSE @]

\* Faulty variant: the handle is read but not taken out of the slot.
stop_take_keeps_handle(t) ==
    /\ pc[t] = "stop_take"
    /\ slot_lock = 0
    /\ IF SERVER_PROCESS = None
       THEN /\ pc' = [pc EXCEPT ![t] = after_stop(t)]
            /\ UNCHANGED <<slot_lock, children, stop_child>>
       ELSE /\ stop_child' = [stop_child EXCEPT ![t] = SERVER_PROCESS]
            /\ slot_lock' = t
            /\ children' = request_termination(children, SERVER_PROCESS)
            /\ pc' = [pc EXCEPT ![t] = "stop_wait"]
    /\ UNCHANGED <<calls, port_lock, language_lock,
                   SERVER_PROCESS, SERVER_PORT, SERVER_LANGUAGE, op,
                   port, language, python, start_child, http_port, attempt,
                   connected, is_running, ret_port, result, prev_set>>

\* Faulty variant: a handle whose process has exited is left alone.
stop_take_if_running(t) ==
    /\ pc[t] = "stop_take"
    /\ slot_lock = 0
    /\ IF ~is_server_running
       THEN /\ pc' = [pc EXCEPT ![t] = after_stop(t)]
            /\ UNCHANGED <<SERVER_PROCESS, slot_lock, children, stop_child>>
       ELSE /\ stop_child' = [stop_child EXCEPT ![t] = SERVER_PROCESS]
            /\ SERVER_PROCESS' = None
            /\ slot_lock' = t
            /\ children' = request_termination(children, SERVER_PROCESS)
            /\ pc' = [pc EXCEPT ![t] = "stop_wait"]
    /\ UNCHANGED <<calls, port_lock, language_lock,
                   SERVER_PORT, SERVER_LANGUAGE, op, port,
                   language, python, start_child, http_port, attempt,
                   connected, is_running, ret_port, result, prev_set>>

\* Faulty variant: the handle is taken and waited for, but its process is
\* never asked to terminate.
stop_take_no_request(t) ==
    /\ pc[t] = "stop_take"
    /\ slot_lock = 0
    /\ IF SERVER_PROCESS = None
       THEN /\ pc' = [pc EXCEPT ![t] = after_stop(t)]
            /\ UNCHANGED <<SERVER_PROCESS, slot_lock, stop_child>>
       ELSE /\ stop_child' = [stop_child EXCEPT ![t] = SERVER_PROCESS]
            /\ SERVER_PROCESS' = None
            /\ slot_lock' = t
            /\ pc' = [pc EXCEPT ![t] = "stop_wait"]
    /\ UNCHANGED <<calls, port_lock, language_lock,
                   SERVER_PORT, SERVER_LANGUAGE, children, op, port,
                   language, python, start_child, http_port, attempt,
                   connected, is_running, ret_port, result, prev_set>>

\* server.rs:82-96  if let Some(mut child) = SERVER_PROCESS.lock().unwrap().take()
\* and the termination request.  The guard of the scrutinee lives to the end
\* of the `if let`, so the slot lock stays held when a handle was taken.
stop_take(t) ==
    /\ pc[t] = "stop_take"
    /\ slot_lock = 0
    /\ IF SERVER_PROCESS = None
       THEN /\ pc' = [pc EXCEPT ![t] = after_stop(t)]
            /\ UNCHANGED <<SERVER_PROCESS, slot_lock, children, stop_child>>
       ELSE /\ stop_child' = [stop_child EXCEPT ![t] = SERVER_PROCESS]
            /\ SERVER_PROCESS' = None
            /\ slot_lock' = t
            /\ children' = request_termination(children, SERVER_PROCESS)
            /\ pc' = [pc EXCEPT ![t] = "stop_wait"]
    /\ UNCHANGED <<calls, port_lock, language_lock,
                   SERVER_PORT, SERVER_LANGUAGE, op, port,
                   language, python, start_child, http_port, attempt,
                   connected, is_running, ret_port, result, prev_set>>

\* Faulty variant: stop_server returns without waiting for the exit.
stop_without_wait(t) ==
    /\ pc[t] = "stop_wait"
    /\ slot_lock' = 0
    /\ children' = drop_handle(children, stop_child[t])
    /\ pc' = [pc EXCEPT ![t] = after_stop(t)]
    /\ UNCHANGED <<calls, port_lock, language_lock,
                   SERVER_PROCESS, SERVER_PORT,
                   SERVER_LANGUAGE, op, port, language, python, start_child,
                   stop_child, http_port, attempt, connected, is_running,
                   ret_port, result, prev_set>>

\* server.rs:99-104  child.wait() returns once the child has exited; the
\* handle and the lock guard are dropped at the end of the block.
stop_wait(t) ==
    /\ pc[t] = "stop_wait"
    /\ children[stop_child[t]].state = "exited"
    /\ slot_lock' = 0
    /\ children' = drop_handle(children, stop_child[t])
    /\ pc' = [pc EXCEPT ![t] = after_stop(t)]
    /\ UNCHANGED <<calls, port_lock, language_lock,
                   SERVER_PROCESS, SERVER_PORT,
                   SERVER_LANGUAGE, op, port, language, python, start_child,
                   stop_child, http_port, attempt, connected, is_running,
                   ret_port, result, prev_set>>

\* ------------------------------------------------------------ restart_server

\* commands.rs:27  std::thread::sleep(500ms), then start_server(port, &language)
restart_sleep(t) ==
    /\ pc[t] = "restart_sleep"
    /\ pc' = [pc EXCEPT ![t] = "start_check"]
    /\ UNCHANGED <<calls, shared, op, port, language, python,
                   start_child, stop_child, http_port, attempt, connected,
                   is_running, ret_port, result, prev_set>>

\* ------------------------------------------------------------ queries

\* Faulty variant: the liveness query clears a handle whose process exited.
is_server_running_clears_stale(t) ==
    /\ pc[t] = "is_running"
    /\ slot_lock = 0
    /\ is_running' = [is_running EXCEPT ![t] = is_server_running]
    /\ SERVER_PROCESS' = IF is_server_running THEN SERVER_PROCESS ELSE None
    /\ pc' = [pc EXCEPT ![t] = "done"]
    /\ UNCHANGED <<calls, port_lock, language_lock,
                   slot_lock, SERVER_PORT, SERVER_LANGUAGE, children,
                   op, port, language, python, start_child, stop_child,
                   http_port, attempt, connected, ret_port, result, prev_set>>

\* server.rs:107-118  is_server_running() called by a caller of its own
is_server_running_call(t) ==
    /\ pc[t] = "is_running"
    /\ slot_lock = 0
    /\ is_running' = [is_running EXCEPT ![t] = is_server_running]
    /\ pc' = [pc EXCEPT ![t] = "done"]
    /\ UNCHANGED <<calls, shared, op, port, language, python,
                   start_child, stop_child, http_port, attempt, connected,
                   ret_port, result, prev_set>>

\* commands.rs:11  let is_running = server::is_server_running();
status_running(t) ==
    /\ pc[t] = "status_running"
    /\ slot_lock = 0
    /\ is_running' = [is_running EXCEPT ![t] = is_server_running]
    /\ pc' = [pc EXCEPT ![t] = "status_port"]
    /\ UNCHANGED <<calls, shared, op, port, language, python,
                   start_child, stop_child, http_port, attempt, connected,
                   ret_port, result, prev_set>>

\* commands.rs:12-18  let port = server::get_server_port(); and the
\* ServerStatus built from it (result holds its url).
status_port(t) ==
    /\ pc[t] = "status_port"
    /\ port_lock = 0
    /\ ret_port' = [ret_port EXCEPT ![t] = SERVER_PORT]
    /\ \E o \in succ_outcomes(SERVER_PORT) :
          IF o = "panic"
          THEN /\ pc' = [pc EXCEPT ![t] = "panicked"]
               /\ UNCHANGED result
          ELSE /\ pc' = [pc EXCEPT ![t] = "done"]
               /\ result' = [result EXCEPT ![t] =
                                format_url(wrapping_succ(SERVER_PORT))]
    /\ UNCHANGED <<calls, shared, op, port, language, python,
                   start_child, stop_child, http_port, attempt, connected,
                   is_running, prev_set>>

\* server.rs:121-123
get_server_port(t) ==
    /\ pc[t] = "get_port"
    /\ port_lock = 0
    /\ ret_port' = [ret_port EXCEPT ![t] = SERVER_PORT]
    /\ pc' = [pc EXCEPT ![t] = "done"]
    /\ UNCHANGED <<calls, shared, op, port, language, python,
                   start_child, stop_child, http_port, attempt, connected,
                   is_running, result, prev_set>>

\* server.rs:126-128, commands.rs:43-45
get_language(t) ==
    /\ pc[t] = "get_language"
    /\ language_lock = 0
    /\ result' = [result EXCEPT ![t] = SERVER_LANGUAGE]
    /\ pc' = [pc EXCEPT ![t] = "done"]
    /\ UNCHANGED <<calls, shared, op, port, language, python,
                   start_child, stop_child, http_port, attempt, connected,
                   is_running, ret_port, prev_set>>

\* format!("Language set to: {}", language)
format_language_set(l) == "Language set to: " \o l

\* Faulty variant: the new language is acknowledged but not stored.
set_language_not_stored(t) ==
    /\ pc[t] = "set_language"
    /\ language_lock = 0
    /\ result' = [result EXCEPT ![t] = format_language_set(language[t])]
    /\ pc' = [pc EXCEPT ![t] = "done"]
    /\ UNCHANGED <<calls, shared, op, port, language, python, start_child,
                   stop_child, http_port, attempt, connected, is_running,
                   ret_port, prev_set>>

\* server.rs:131-133, commands.rs:49-52
set_language(t) ==
    /\ pc[t] = "set_language"
    /\ language_lock = 0
    /\ SERVER_LANGUAGE' = language[t]
    /\ result' = [result EXCEPT ![t] = format_language_set(language[t])]
    /\ pc' = [pc EXCEPT ![t] = "done"]
    /\ UNCHANGED <<calls, port_lock, language_lock,
                   SERVER_PROCESS, slot_lock, SERVER_PORT,
                   children, op, port, language, python, start_child,
                   stop_child, http_port, attempt, connected, is_running,
                   ret_port, prev_set>>

\* ------------------------------------------------------------ lock steps
\* The accesses to SERVER_PORT and SERVER_LANGUAGE once more, with the
\* acquisition of the mutex and the access under it as separate steps.  Each
\* guard is a temporary of its statement and is dropped at the end of it.

\* Caller t at statement `at` acquires the SERVER_PORT mutex.
acquire_port(t, at, locked) ==
    /\ pc[t] = at
    /\ port_lock = 0
    /\ port_lock' = t
    /\ pc' = [pc EXCEPT ![t] = locked]
    /\ UNCHANGED <<calls, SERVER_PROCESS, slot_lock, SERVER_PORT,
                   SERVER_LANGUAGE, language_lock, children, op, port,
                   language, python, start_child, stop_child, http_port,
                   attempt, connected, is_running, ret_port, result, prev_set>>

\* Caller t at statement `at` acquires the SERVER_LANGUAGE mutex.
acquire_language(t, at, locked) ==
    /\ pc[t] = at
    /\ language_lock = 0
    /\ language_lock' = t
    /\ pc' = [pc EXCEPT ![t] = locked]
    /\ UNCHANGED <<calls, SERVER_PROCESS, slot_lock, SERVER_PORT, port_lock,
                   SERVER_LANGUAGE, children, op, port, language, python,
                   start_child, stop_child, http_port, attempt, connected,
                   is_running, ret_port, result, prev_set>>

\* server.rs:23  SERVER_PORT.lock()
start_port_lock(t) == acquire_port(t, "start_store_port", "start_port_locked")

\* Faulty variant: the port guard is kept after the statement.
start_port_store_keeps_lock(t) ==
    /\ pc[t] = "start_port_locked"
    /\ SERVER_PORT' = port[t]
    /\ pc' = [pc EXCEPT ![t] = "start_store_language"]
    /\ UNCHANGED <<calls, SERVER_PROCESS, slot_lock, port_lock,
                   SERVER_LANGUAGE, language_lock, children, op, port,
                   language, python, start_child, stop_child, http_port,
                   attempt, connected, is_running, ret_port, result, prev_set>>

\* server.rs:23  *guard = port; the guard is dropped
start_port_store(t) ==
    /\ pc[t] = "start_port_locked"
    /\ SERVER_PORT' = port[t]
    /\ port_lock' = 0
    /\ pc' = [pc EXCEPT ![t] = "start_store_language"]
    /\ UNCHANGED <<calls, SERVER_PROCESS, slot_lock, SERVER_LANGUAGE,
                   language_lock, children, op, port, language, python,
                   start_child, stop_child, http_port, attempt, connected,
                   is_running, ret_port, result, prev_set>>

\* server.rs:24  SERVER_LANGUAGE.lock()
start_language_lock(t) ==
    acquire_language(t, "start_store_language", "start_language_locked")

\* server.rs:24  *guard = language.to_string(); the guard is dropped
start_language_store(t) ==
    /\ pc[t] = "start_language_locked"
    /\ SERVER_LANGUAGE' = language[t]
    /\ language_lock' = 0
    /\ pc' = [pc EXCEPT ![t] = "start_find_python"]
    /\ UNCHANGED <<calls, SERVER_PROCESS, slot_lock, SERVER_PORT, port_lock,
                   children, op, port, language, python, start_child,
                   stop_child, http_port, attempt, connected, is_running,
                   ret_port, result, prev_set>>

\* server.rs:122  SERVER_PORT.lock()
get_port_lock(t) == acquire_port(t, "get_port", "get_port_locked")

\* server.rs:122  *guard is copied out; the guard is dropped
get_port_read(t) ==
    /\ pc[t] = "get_port_locked"
    /\ ret_port' = [ret_port EXCEPT ![t] = SERVER_PORT]
    /\ port_lock' = 0
    /\ pc' = [pc EXCEPT ![t] = "done"]
    /\ UNCHANGED <<calls, SERVER_PROCESS, slot_lock, SERVER_PORT,
                   SERVER_LANGUAGE, language_lock, children, op, port,
                   language, python, start_child, stop_child, http_port,
                   attempt, connected, is_running, result, prev_set>>

\* commands.rs:12  server::get_server_port(): SERVER_PORT.lock()
status_port_lock(t) == acquire_port(t, "status_port", "status_port_locked")

\* commands.rs:12-18  the port is copied out, the guard dropped and the
\* ServerStatus built
status_port_read(t) ==
    /\ pc[t] = "status_port_locked"
    /\ ret_port' = [ret_port EXCEPT ![t] = SERVER_PORT]
    /\ port_lock' = 0
    /\ \E o \in succ_outcomes(SERVER_PORT) :
          IF o = "panic"
          THEN /\ pc' = [pc EXCEPT ![t] = "panicked"]
               /\ UNCHANGED result
          ELSE /\ pc' = [pc EXCEPT ![t] = "done"]
               /\ result' = [result EXCEPT ![t] =
                                format_url(wrapping_succ(SERVER_PORT))]
    /\ UNCHANGED <<calls, SERVER_PROCESS, slot_lock, SERVER_PORT,
                   SERVER_LANGUAGE, language_lock, children, op, port,
                   language, python, start_child, stop_child, http_port,
                   attempt, connected, is_running, prev_set>>

\* server.rs:127  SERVER_LANGUAGE.lock()
get_language_lock(t) == acquire_language(t, "get_language", "get_language_locked")

\* server.rs:127  guard.clone(); the guard is dropped
get_language_read(t) ==
    /\ pc[t] = "get_language_locked"
    /\ result' = [result EXCEPT ![t] = SERVER_LANGUAGE]
    /\ language_lock' = 0
    /\ pc' = [pc EXCEPT ![t] = "done"]
    /\ UNCHANGED <<calls, SERVER_PROCESS, slot_lock, SERVER_PORT, port_lock,
                   SERVER_LANGUAGE, children, op, port, language, python,
                   start_child, stop_child, http_port, attempt, connected,
                   is_running, ret_port, prev_set>>

\* server.rs:132  SERVER_LANGUAGE.lock()
set_language_lock(t) == acquire_language(t, "set_language", "set_language_locked")

\* server.rs:132, commands.rs:49-52  *guard = language.to_string(); the
\* guard is dropped
set_language_write(t) ==
    /\ pc[t] = "set_language_locked"
    /\ SERVER_LANGUAGE' = language[t]
    /\ language_lock' = 0
    /\ result' = [result EXCEPT ![t] = format_language_set(language[t])]
    /\ pc' = [pc EXCEPT ![t] = "done"]
    /\ UNCHANGED <<calls, SERVER_PROCESS, slot_lock, SERVER_PORT, port_lock,
                   children, op, port, language, python, start_child,
                   stop_child, http_port, attempt, connected, is_running,
                   ret_port, prev_set>>

\* ------------------------------------------------------------ environment

\* The supervised process exits (on its own, or because it was asked to).
ChildExit(c) ==
    /\ children[c].state = "running"
    /\ children' = [children EXCEPT ![c].state = "exited"]
    /\ UNCHANGED <<calls, port_lock, language_lock,
                   SERVER_PROCESS, slot_lock, SERVER_PORT,
                   SERVER_LANGUAGE, locals>>

\* ------------------------------------------------------------ specifications

\* start_server, from its call to its return
StartSteps(t) ==
    \/ start_check(t)
    \/ start_store_port(t)
    \/ start_store_language(t)
    \/ start_find_python(t)
    \/ start_spawn(t)
    \/ start_store_handle(t)
    \/ start_forward(t)
    \/ start_poll(t)

StopSteps(t) ==
    \/ stop_take(t)
    \/ stop_wait(t)

\* The calls that do not launch a process.
Observe(t) ==
    \/ Call_stop_server(t)
    \/ Call_is_server_running(t)
    \/ Call_get_server_status(t)
    \/ Call_get_server_port(t)
    \/ Call_get_language(t)
    \/ Call_set_language(t)
    \/ StopSteps(t)
    \/ is_server_running_call(t)
    \/ status_running(t)
    \/ status_port(t)
    \/ get_server_port(t)
    \/ get_language(t)
    \/ set_language(t)
    \/ Return(t)

\* The calls that launch a process.
Launch(t) ==
    \/ Call_start_server(t)
    \/ Call_restart_server(t)
    \/ StartSteps(t)
    \/ restart_sleep(t)

\* Everything a caller can do.
Step(t) == Launch(t) \/ Observe(t)

Environment == \E c \in 1..Len(children) : ChildExit(c)

\* Caller 1 uses every operation while caller 2, a concurrent command
\* handler, stops, queries and sets the language.
Next == Step(1) \/ Observe(2) \/ Environment

Spec == Init /\ [][Next]_vars

\* One caller, one call at a time.
NextSeq == Step(1) \/ Environment

SpecSeq == Init /\ [][NextSeq]_vars

\* One caller whose thread, once inside stop_server, keeps being scheduled.
SpecSeqFair == Init /\ [][NextSeq]_vars /\ WF_vars(StopSteps(1))

\* Two callers that both call start_server.
StartOnly(t) == Call_start_server(t) \/ StartSteps(t) \/ Return(t)

NextRace == StartOnly(1) \/ StartOnly(2) \/ Environment

SpecRace == Init /\ [][NextRace]_vars

\* start_server with the lock steps of its configuration stores.
LockedStart(t) ==
    \/ Call_start_server(t)
    \/ start_check(t)
    \/ start_port_lock(t)
    \/ start_port_store(t)
    \/ start_language_lock(t)
    \/ start_language_store(t)
    \/ start_find_python(t)
    \/ start_spawn(t)
    \/ start_store_handle(t)
    \/ start_forward(t)
    \/ start_poll(t)

\* The accessors and get_server_status with their lock steps.
LockedAccess(t) ==
    \/ Call_get_server_port(t)
    \/ Call_get_language(t)
    \/ Call_set_language(t)
    \/ Call_get_server_status(t)
    \/ get_port_lock(t)
    \/ get_port_read(t)
    \/ get_language_lock(t)
    \/ get_language_read(t)
    \/ set_language_lock(t)
    \/ set_language_write(t)
    \/ status_running(t)
    \/ status_port_lock(t)
    \/ status_port_read(t)
    \/ Return(t)

\* start, stop, is_running and the accessors, lock by lock.
LockedStep(t) ==
    \/ LockedStart(t)
    \/ Call_stop_server(t)
    \/ StopSteps(t)
    \/ Call_is_server_running(t)
    \/ is_server_running_call(t)
    \/ LockedAccess(t)

\* Caller 1 starts, stops and queries while caller 2 uses the accessors.
NextLocks == LockedStep(1) \/ LockedAccess(2) \/ Environment

SpecLocks == Init /\ [][NextLocks]_vars

\* ------------------------------------------------------------ claims

\* Caller t moves from statement `from` (to another statement).
Moves(t, from) == pc[t] = from /\ pc'[t] # from

\* C1: start called while the supervised process is running returns the
\* AlreadyRunning error, and neither entering the call nor its liveness
\* check changes the process slot, any process, SERVER_PORT or SERVER_LANGUAGE.
C1_AlreadyRunningKeepsState ==
    [][\A t \in Callers :
          /\ (Idle(t) /\ pc'[t] = "start_check") => UNCHANGED shared
          /\ (Moves(t, "start_check") /\ is_server_running) =>
                /\ pc'[t] = "done"
                /\ result'[t] = start_result(t, "Server is already running")
                /\ UNCHANGED shared]_vars

\* A start with other arguments than the stored configuration was rejected
\* while the process in the slot is running.
C1_Witness ==
    \E t \in Callers :
       /\ pc[t] = "done"
       /\ op[t] = "start_server"
       /\ result[t] = "Server is already running"
       /\ is_server_running
       /\ SERVER_PORT # port[t]
       /\ SERVER_LANGUAGE # language[t]

\* C2: immediately after a start(port, lang) that returned success,
\* is_running() is true, get_status().port is port and get_status().url is
\* "http://127.0.0.1:{port+1}", whatever the child did meanwhile.
C2_SuccessMeansRunning ==
    \A t \in Callers :
       (pc[t] = "done" /\ op[t] = "start_server" /\ result[t] = "Ok") =>
          /\ is_server_running
          /\ SERVER_PORT = port[t]
          /\ format_url(wrapping_succ(SERVER_PORT)) = format_url(port[t] + 1)

\* stop_server returns in this step of caller t.
StopReturns(t) ==
    /\ pc[t] \in {"stop_take", "stop_wait"}
    /\ pc'[t] = after_stop(t)

\* A start_server call stores its handle in this step.
SomeStartStores == \E t \in Callers : Moves(t, "start_store_handle")

\* C3: when stop() returns the process slot is empty and is_running() is
\* false, whatever the slot held when stop() was called, and the slot stays
\* empty until a start stores a new handle.
C3_StoppedUntilStart ==
    [][/\ \A t \in Callers :
             StopReturns(t) => (SERVER_PROCESS' = None /\ ~is_server_running')
       /\ (SERVER_PROCESS = None /\ SERVER_PROCESS' # None) => SomeStartStores
      ]_vars

\* stop() has returned after taking a handle out of the slot and waiting
\* for its process.
C3_Witness ==
    \E t \in Callers :
       /\ pc[t] = "done"
       /\ op[t] = "stop_server"
       /\ stop_child[t] # None
       /\ children[stop_child[t]].state = "exited"
       /\ SERVER_PROCESS = None

\* C4 as claimed: stop() on a supervisor that is not running (slot empty, or
\* holding a handle whose process has exited) requests no termination and
\* changes neither the slot nor the configuration.
C4_StopNotRunningIsNoOp ==
    [][\A t \in Callers :
          (Moves(t, "stop_take") /\ ~is_server_running) =>
             /\ UNCHANGED <<SERVER_PROCESS, children, SERVER_PORT, SERVER_LANGUAGE>>
             /\ pc'[t] = after_stop(t)]_vars

\* C4 as amended: stop() on an empty slot changes nothing shared and returns
\* at once; stop() on a handle whose process has exited leaves the
\* configuration alone and returns without waiting, but takes the handle out
\* of the slot and addresses one termination request to its process.
C4_StopNotRunning ==
    /\ [][\A t \in Callers :
             /\ (Moves(t, "stop_take") /\ SERVER_PROCESS = None) =>
                   (UNCHANGED shared /\ pc'[t] = after_stop(t)
                      /\ result'[t] = result[t])
             /\ (Moves(t, "stop_take") /\ SERVER_PROCESS # None
                   /\ ~is_server_running) =>
                   /\ SERVER_PROCESS' = None
                   /\ children' = request_termination(children, SERVER_PROCESS)
                   /\ children'[SERVER_PROCESS].late_requests =
                         children[SERVER_PROCESS].late_requests + 1
                   /\ UNCHANGED <<SERVER_PORT, SERVER_LANGUAGE>>
             /\ Moves(t, "stop_wait") =>
                   /\ pc'[t] = after_stop(t)
                   /\ result'[t] = result[t]
                   /\ UNCHANGED <<SERVER_PROCESS, SERVER_PORT, SERVER_LANGUAGE>>
         ]_vars
    /\ [](\A t \in Callers :
             (pc[t] = "stop_wait" /\ children[stop_child[t]].state = "exited")
                => ENABLED stop_wait(t))

\* stop() has returned after it found a handle whose process had already
\* exited: the slot is empty and that process was sent a termination request.
C4_Witness ==
    \E t \in Callers :
       /\ pc[t] = "done"
       /\ op[t] = "stop_server"
       /\ stop_child[t] # None
       /\ children[stop_child[t]].late_requests = 1
       /\ SERVER_PROCESS = None

\* The spawned children that have not exited.
LiveChildren == {c \in 1..Len(children) : children[c].state = "running"}

\* C5: under any interleaving of concurrent callers at most one spawned
\* child that has not exited exists, and the slot references it.
C5_AtMostOneLiveChild ==
    /\ Cardinality(LiveChildren) <= 1
    /\ \A c \in LiveChildren :
          \/ SERVER_PROCESS = c
          \/ \E t \in Callers :
                \/ (pc[t] = "start_store_handle" /\ start_child[t] = c)
                \/ (pc[t] = "stop_wait" /\ stop_child[t] = c)

C7_RestartReconfigures ==
    /\ [](\A t \in Callers :
             (/\ pc[t] = "done"
              /\ op[t] = "restart_server"
              /\ result[t] = "Server restarted successfully"
              /\ stop_child[t] # None) =>
                /\ children[stop_child[t]].state = "exited"
                /\ SERVER_PORT = port[t]
                /\ SERVER_LANGUAGE = language[t]
                /\ start_child[t] # None
                /\ start_child[t] # stop_child[t]
                /\ SERVER_PROCESS = start_child[t]
                /\ children[start_child[t]].port = port[t]
                /\ children[start_child[t]].lang = language[t])
    /\ [][\A t \in Callers :
             op[t] = "restart_server" =>
                /\ pc'[t] = "restart_sleep" => StopReturns(t) \/ pc[t] = "restart_sleep"
                /\ pc'[t] = "start_check" =>
                      pc[t] \in {"restart_sleep", "start_check"}
         ]_vars

\* restart has succeeded with a language and a port that differ from those
\* the old process was spawned with.
C7_Witness ==
    \E t \in Callers :
       /\ pc[t] = "done"
       /\ op[t] = "restart_server"
       /\ result[t] = "Server restarted successfully"
       /\ stop_child[t] # None
       /\ children[stop_child[t]].lang # language[t]
       /\ children[stop_child[t]].port # port[t]
       /\ children[start_child[t]].state = "running"

\* C8: is_running() never has to wait for a child process to exit: a caller
\* inside is_running() is never held up behind a stop() that is waiting for
\* its child.
C8_IsRunningNeverWaits ==
    \A t \in Callers :
       pc[t] = "is_running" =>
          ~ \E u \in Callers :
               /\ slot_lock = u
               /\ pc[u] = "stop_wait"
               /\ children[stop_child[u]].state = "running"

\* start_server is past its spawn statement with a child of its own.
Spawned(t) == start_child[t] # None

\* The readiness loop of C9 without its target port: at most max_attempts
\* probes, success at once on the first probe that connects and success
\* when all have failed, and no step of start after the spawn returns an
\* error, empties the slot or asks a child to terminate.
C9_LoopBehaviour ==
    /\ [](\A t \in Callers :
             /\ pc[t] = "start_poll" =>
                   (Spawned(t) /\ attempt[t] \in 1..max_attempts)
             /\ (pc[t] = "done" /\ Spawned(t)) =>
                   /\ result[t] = start_result(t, "Ok")
                   /\ attempt[t] \in 1..max_attempts
                   /\ connected[t] \/ attempt[t] = max_attempts)
    /\ [][\A t \in Callers :
             /\ Moves(t, "start_store_handle") =>
                   (SERVER_PROCESS' = start_child[t]
                      /\ \A c \in 1..Len(children) :
                            children'[c].term_requests = children[c].term_requests)
             /\ Moves(t, "start_forward") =>
                   (SERVER_PROCESS' = SERVER_PROCESS
                      /\ \A c \in 1..Len(children) :
                            children'[c].term_requests = children[c].term_requests)
             /\ (pc[t] = "start_poll" /\ attempt'[t] = attempt[t] + 1) =>
                   /\ ~connected'[t]
                   /\ pc'[t] = "start_poll"
                   /\ UNCHANGED shared
             /\ Moves(t, "start_poll") =>
                   /\ connected'[t] \/ attempt[t] = max_attempts
                   /\ attempt'[t] = attempt[t]
                   /\ pc'[t] = "done"
                   /\ UNCHANGED shared
         ]_vars

\* C9: once the spawn has succeeded start probes port+1, at most
\* max_attempts times, and returns success at once on the first probe that
\* connects and also when all have failed, without returning an error,
\* emptying the slot or terminating the child.
C9_ReadinessLoop ==
    /\ C9_LoopBehaviour
    /\ [](\A t \in Callers :
             pc[t] = "start_poll" => http_port[t] = port[t] + 1)

\* C10: get_language() right after set_language(x) returns x, in every
\* state of the process, and set_language changes the language only: not the
\* slot, not a process, not SERVER_PORT.
C10_SetThenGetLanguage ==
    /\ [](\A t \in Callers :
             /\ (pc[t] = "done" /\ op[t] = "set_language") =>
                   SERVER_LANGUAGE = language[t]
             /\ (pc[t] = "done" /\ op[t] = "get_language" /\ prev_set[t] # "") =>
                   result[t] = prev_set[t])
    /\ [][\A t \in Callers :
             Moves(t, "set_language") =>
                UNCHANGED <<SERVER_PROCESS, slot_lock, children, SERVER_PORT>>
         ]_vars

\* get_language() has returned the language set just before, which is not
\* the one the running process was spawned with.
C10_Witness ==
    \E t \in Callers :
       /\ pc[t] = "done"
       /\ op[t] = "get_language"
       /\ prev_set[t] = "fr"
       /\ result[t] = "fr"
       /\ is_server_running
       /\ children[SERVER_PROCESS].lang = "en"

\* C11: is_running() never modifies the process slot: on a handle whose
\* process has exited it answers false and leaves the handle in the slot;
\* the slot is emptied only by stop() and given a handle only by a start
\* that has spawned a child.
C11_IsRunningKeepsSlot ==
    [][/\ \A t \in Callers :
             /\ Moves(t, "is_running") =>
                   /\ is_running'[t] = is_server_running
                   /\ UNCHANGED <<SERVER_PROCESS, children>>
             /\ (Moves(t, "status_running") \/ Moves(t, "start_check")) =>
                   UNCHANGED <<SERVER_PROCESS, children>>
       /\ (SERVER_PROCESS # None /\ SERVER_PROCESS' = None) =>
             \E t \in Callers : Moves(t, "stop_take")
       /\ (SERVER_PROCESS' # None /\ SERVER_PROCESS' # SERVER_PROCESS) =>
             \E t \in Callers :
                /\ Moves(t, "start_store_handle")
                /\ Spawned(t)
                /\ SERVER_PROCESS' = start_child[t]
      ]_vars

\* is_running() has answered false and the handle of the exited process is
\* still in the slot.
C11_Witness ==
    \E t \in Callers :
       /\ pc[t] = "done"
       /\ op[t] = "is_server_running"
       /\ ~is_running[t]
       /\ SERVER_PROCESS # None
       /\ children[SERVER_PROCESS].state = "exited"

\* C12: a start made while the slot holds the handle of an exited process
\* is not rejected as AlreadyRunning (only a running process rejects it): it
\* goes on to store the configuration, resolve the interpreter and spawn,
\* and on a successful spawn the slot holds the new handle in place of the
\* stale one.
C12_StaleHandleIsReplaced ==
    [][\A t \in Callers :
          /\ (Moves(t, "start_check") /\ ~is_server_running) =>
                (pc'[t] = "start_store_port" /\ result'[t] = result[t])
          /\ (Moves(t, "start_check") /\ pc'[t] = "done") => is_server_running
          /\ Moves(t, "start_store_port") => pc'[t] = "start_store_language"
          /\ Moves(t, "start_store_language") => pc'[t] = "start_find_python"
          /\ (Moves(t, "start_find_python") /\ python'[t] # NoPython) =>
                pc'[t] = "start_spawn"
          /\ (Moves(t, "start_spawn") /\ Len(children') > Len(children)) =>
                pc'[t] = "start_store_handle"
          /\ Moves(t, "start_store_handle") =>
                /\ Spawned(t)
                /\ start_child[t] # SERVER_PROCESS
                /\ SERVER_PROCESS' = start_child[t]
      ]_vars

\* A start has put its new child into the slot in place of the handle of a
\* process that had exited and that nobody had stopped.
C12_Witness ==
    \E t \in Callers :
       /\ op[t] = "start_server"
       /\ pc[t] = "start_forward"
       /\ SERVER_PROCESS = start_child[t]
       /\ \E c \in 1..Len(children) :
             /\ c # SERVER_PROCESS
             /\ children[c].state = "exited"
             /\ children[c].term_requests = 0

\* C13: whenever start(port, language) returns anything but AlreadyRunning
\* (success, InterpreterNotFound or SpawnFailed), SERVER_PORT is port and
\* SERVER_LANGUAGE is language: both are written before the lookup and the
\* spawn, and a failure of either does not write them again.
C13_ConfigurationKept ==
    /\ [](\A t \in Callers :
             (/\ pc[t] = "done"
              /\ op[t] \in {"start_server", "restart_server"}
              /\ result[t] # start_result(t, "Server is already running")) =>
                /\ SERVER_PORT = port[t]
                /\ SERVER_LANGUAGE = language[t])
    /\ [][\A t \in Callers :
             /\ Moves(t, "start_store_port") => SERVER_PORT' = port[t]
             /\ Moves(t, "start_store_language") => SERVER_LANGUAGE' = language[t]
             /\ (Moves(t, "start_find_python") \/ Moves(t, "start_spawn")) =>
                   UNCHANGED <<SERVER_PORT, SERVER_LANGUAGE>>
         ]_vars

\* start has failed to spawn and the configuration is the one it was called
\* with, not the initial one.
C13_Witness ==
    \E t \in Callers :
       /\ pc[t] = "done"
       /\ op[t] = "start_server"
       /\ result[t] = "Failed to spawn Python process: os error"
       /\ SERVER_PORT = port[t]
       /\ SERVER_LANGUAGE = language[t]
       /\ SERVER_PORT # DefaultPort
       /\ SERVER_LANGUAGE # DefaultLanguage

\* C14: for every configured port p of 0..65535 the readiness probe of start
\* targets port p+1 and get_server_status reports "http://127.0.0.1:{p+1}";
\* computing p+1 never wraps to another port and never aborts the operation.
C14_PortSuccessorExact ==
    \A t \in Callers :
       /\ pc[t] # "panicked"
       /\ pc[t] = "start_poll" => http_port[t] = port[t] + 1
       /\ (pc[t] = "done" /\ op[t] = "get_server_status") =>
             result[t] = format_url(ret_port[t] + 1)

\* C15: the handle stored by start is visible in the process slot only
\* after both relay listeners of that child have been started: no caller
\* that is about to read the slot (is_running, get_server_status, stop,
\* start's liveness check) can find there a handle whose stdout and stderr
\* are not being read yet.
C15_VisibleHandleIsDrained ==
    \A t \in Callers :
       (/\ pc[t] \in {"is_running", "status_running", "stop_take", "start_check"}
        /\ slot_lock = 0
        /\ SERVER_PROCESS # None) =>
          /\ children[SERVER_PROCESS].out_readers = 1
          /\ children[SERVER_PROCESS].err_readers = 1

\* Caller t spawns a child in this step.
Spawns(t) == Moves(t, "start_spawn") /\ Len(children') = Len(children) + 1

\* C16 as claimed: in every interleaving the --port and --lang values start
\* passes to the child equal SERVER_PORT and SERVER_LANGUAGE as stored at the
\* moment of the spawn.
C16_SpawnReadsConfiguration ==
    [][\A t \in Callers :
          Spawns(t) =>
             /\ children'[Len(children')].port = SERVER_PORT
             /\ children'[Len(children')].lang = SERVER_LANGUAGE]_vars

\* C16 as amended: the --port and --lang values passed to the child are the
\* arguments of that start call, in every interleaving.  start has written
\* them to SERVER_PORT and SERVER_LANGUAGE before and does not write the
\* configuration again up to its spawn, so they equal the stored
\* configuration at the moment of the spawn unless another caller's
\* set_language or start has overwritten it in between.
C16_SpawnUsesArguments ==
    [][/\ \A t \in Callers :
             /\ Spawns(t) =>
                   /\ children'[Len(children')].port = port[t]
                   /\ children'[Len(children')].lang = language[t]
             /\ Moves(t, "start_store_port") => SERVER_PORT' = port[t]
             /\ Moves(t, "start_store_language") => SERVER_LANGUAGE' = language[t]
             /\ (Moves(t, "start_find_python") \/ Moves(t, "start_spawn")) =>
                   UNCHANGED <<SERVER_PORT, SERVER_LANGUAGE>>
       /\ SERVER_PORT' # SERVER_PORT =>
             \E t \in Callers : Moves(t, "start_store_port")
       /\ SERVER_LANGUAGE' # SERVER_LANGUAGE =>
             \E t \in Callers :
                Moves(t, "start_store_language") \/ Moves(t, "set_language")
      ]_vars

\* A child has just been spawned with the language of its start call while
\* the stored language is another one, set by a concurrent set_language.
C16_Witness ==
    \E t \in Callers :
       /\ pc[t] = "start_store_handle"
       /\ children[start_child[t]].port = port[t]
       /\ children[start_child[t]].lang = language[t]
       /\ SERVER_PORT = port[t]
       /\ SERVER_LANGUAGE # language[t]

\* C17: every successfully spawned child gets exactly two relay listeners,
\* one on its stdout and one on its stderr, each started once: no stream
\* ever has two readers, and once the start call that spawned a child is
\* past start_log_forwarder both streams of that child have their reader.
C17_TwoListenersPerChild ==
    /\ \A c \in 1..Len(children) :
          children[c].out_readers <= 1 /\ children[c].err_readers <= 1
    /\ \A t \in Callers :
          (Spawned(t) /\ pc[t] \in {"start_poll", "done", "panicked"}) =>
             /\ children[start_child[t]].out_readers = 1
             /\ children[start_child[t]].err_readers = 1

\* C18: stop() on a slot that holds a handle takes the handle out, sends
\* its process one termination request and returns only once that process
\* has exited; when the process has exited stop() does return; while it has
\* not, stop() cannot return and sends nothing more (no timeout, no
\* escalation).
C18_StopWaitsForExit ==
    /\ [][\A t \in Callers :
             /\ (Moves(t, "stop_take") /\ SERVER_PROCESS # None) =>
                   /\ SERVER_PROCESS' = None
                   /\ stop_child'[t] = SERVER_PROCESS
                   /\ children'[SERVER_PROCESS].term_requests =
                         children[SERVER_PROCESS].term_requests + 1
                   /\ pc'[t] = "stop_wait"
             /\ Moves(t, "stop_wait") =>
                   /\ children[stop_child[t]].state = "exited"
                   /\ pc'[t] = after_stop(t)
             /\ (pc[t] = "stop_wait" /\ pc'[t] = "stop_wait") =>
                   children'[stop_child[t]].term_requests =
                      children[stop_child[t]].term_requests
         ]_vars
    /\ [](\A t \in Callers :
             (pc[t] = "stop_wait" /\ children[stop_child[t]].state = "running")
                => ~ENABLED stop_wait(t))
    /\ \A t \in Callers :
          (pc[t] = "stop_wait" /\ children[stop_child[t]].state = "exited")
             ~> (pc[t] = after_stop(t))

\* stop() has returned after asking a running process to terminate and
\* waiting for its exit.
C18_Witness ==
    \E t \in Callers :
       /\ pc[t] = "done"
       /\ op[t] = "stop_server"
       /\ stop_child[t] # None
       /\ children[stop_child[t]].term_requests = 1
       /\ children[stop_child[t]].late_requests = 0
       /\ children[stop_child[t]].state = "exited"

\* The errors start_server can fail with once it is past its liveness check.
StartFailures == {"Python not found", "Failed to spawn Python process: os error"}

\* C19: when the start step of restart(p2, l2) fails, restart returns
\* "Failed to restart server: " followed by start's error, the process that
\* was running before has been stopped and stays stopped (the slot is empty,
\* is_running() is false), and with no concurrent caller the start step is
\* never rejected as AlreadyRunning, because the stop step has emptied the slot.
C19_RestartFailure ==
    /\ [](\A t \in Callers :
             (/\ pc[t] = "done"
              /\ op[t] = "restart_server"
              /\ result[t] # "Server restarted successfully") =>
                /\ \E e \in StartFailures : result[t] = format_restart_err(e)
                /\ SERVER_PROCESS = None
                /\ ~is_server_running
                /\ stop_child[t] # None =>
                      children[stop_child[t]].state = "exited")
    /\ [][\A t \in Callers :
             op[t] = "restart_server" =>
                /\ Moves(t, "start_check") =>
                      /\ SERVER_PROCESS = None
                      /\ pc'[t] = "start_store_port"
                /\ (Moves(t, "start_find_python") /\ pc'[t] = "done") =>
                      result'[t] = format_restart_err("Python not found")
                /\ (Moves(t, "start_spawn") /\ pc'[t] = "done") =>
                      result'[t] = format_restart_err(
                                      "Failed to spawn Python process: os error")
         ]_vars

\* restart has stopped a running process and then failed for want of an
\* interpreter: it returned start's error and nothing is running.
C19_Witness ==
    \E t \in Callers :
       /\ pc[t] = "done"
       /\ op[t] = "restart_server"
       /\ result[t] = "Failed to restart server: Python not found"
       /\ stop_child[t] # None
       /\ children[stop_child[t]].late_requests = 0
       /\ children[stop_child[t]].state = "exited"
       /\ ~is_server_running

\* The mutexes caller t holds.
LocksHeld(t) ==
    {l \in {"slot", "port", "language"} :
        \/ (l = "slot" /\ slot_lock = t)
        \/ (l = "port" /\ port_lock = t)
        \/ (l = "language" /\ language_lock = t)}

\* Caller t is waiting for a process to exit inside stop_server.
WaitsForExit(t) ==
    pc[t] = "stop_wait" /\ children[stop_child[t]].state = "running"

\* Caller t is inside a call and cannot take its next step.
Blocked(t) == pc[t] \notin {"idle", "panicked"} /\ ~ENABLED LockedStep(t)

\* C20: the slot lock, the port lock and the language lock are independent.
\* No caller ever holds more than one of them, and none asks for a lock
\* while it holds one.  get_server_port, get_language and set_language need
\* their own lock only: each can take it whenever it is free and can always
\* finish once it has it, whoever holds the slot lock or the other
\* configuration lock, also while a stop() is waiting for the child to exit.
\* A caller that cannot move waits either for a process to exit or for a
\* lock whose holder waits for no lock, so there is no deadlock on lock order.
C20_LocksIndependent ==
    /\ [](\A t \in Callers : Cardinality(LocksHeld(t)) <= 1)
    /\ [](\A t \in Callers :
             /\ slot_lock = t => pc[t] = "stop_wait"
             /\ port_lock = t =>
                   pc[t] \in {"start_port_locked", "get_port_locked",
                              "status_port_locked"}
             /\ language_lock = t =>
                   pc[t] \in {"start_language_locked", "get_language_locked",
                              "set_language_locked"})
    /\ [](\A t \in Callers :
             /\ (pc[t] = "get_port" /\ port_lock = 0) => ENABLED get_port_lock(t)
             /\ (pc[t] = "get_language" /\ language_lock = 0) =>
                   ENABLED get_language_lock(t)
             /\ (pc[t] = "set_language" /\ language_lock = 0) =>
                   ENABLED set_language_lock(t)
             /\ pc[t] = "get_port_locked" => ENABLED get_port_read(t)
             /\ pc[t] = "get_language_locked" => ENABLED get_language_read(t)
             /\ pc[t] = "set_language_locked" => ENABLED set_language_write(t))
    /\ [](\A t \in Callers :
             Blocked(t) =>
                \/ WaitsForExit(t)
                \/ \E u \in Callers \ {t} :
                      /\ LocksHeld(u) # {}
                      /\ WaitsForExit(u) \/ ENABLED LockedStep(u))

\* While a stop() holds the slot lock and waits for a running child, an
\* accessor of the other caller holds the language lock and can finish.
C20_Witness ==
    \E t, u \in Callers :
       /\ slot_lock = u
       /\ WaitsForExit(u)
       /\ pc[t] = "set_language_locked"
       /\ LocksHeld(t) = {"language"}
       /\ ENABLED set_language_write(t)

====
